---------------------------- MODULE Spec2Model ----------------------------
(***************************************************************************)
(* A model of imap_migrator.py: main() runs migrate_emails once per        *)
(* configured account pair; migrate_emails drives two imaplib connections  *)
(* (source, destination) through list / select / create / search / fetch / *)
(* append / store, one IMAP call per step.                                 *)
(*                                                                         *)
(* Text is modelled as a sequence of tokens (single characters, or words   *)
(* that hold no quote and no white space), so that the string conversions  *)
(* of the program (quoting, prefixing, flag clean-up) are computed and not *)
(* assumed.                                                                *)
(***************************************************************************)
EXTENDS Integers, Sequences, FiniteSets, TLC

Q  == "\""     \* the double quote character
SP == " "      \* a blank
BS == "\\"     \* the backslash character
AP == "'"      \* the apostrophe

(***************************************************************************)
(* Bounds of the exploration.                                              *)
(***************************************************************************)
MaxFaults == 1          \* IMAP calls per run that fail for an outside reason
MaxLineLen == 4         \* tokens of a listing line given to get_mailbox_name alone

(***************************************************************************)
(* Generic helpers on token sequences.                                     *)
(***************************************************************************)
Last(s) == s[Len(s)]

IsPrefix(p, s) == Len(p) <= Len(s) /\ SubSeq(s, 1, Len(p)) = p

\* str.replace(old, new): every non-overlapping occurrence, left to right
RECURSIVE Replace(_, _, _)
Replace(s, old, new) ==
    IF s = <<>> THEN <<>>
    ELSE IF IsPrefix(old, s)
         THEN new \o Replace(SubSeq(s, Len(old) + 1, Len(s)), old, new)
         ELSE <<Head(s)>> \o Replace(Tail(s), old, new)

\* ' '.join(parts)
RECURSIVE Join(_)
Join(parts) ==
    IF parts = <<>> THEN <<>>
    ELSE IF Len(parts) = 1 THEN parts[1]
    ELSE parts[1] \o <<SP>> \o Join(Tail(parts))

\* positions of token t in s
Positions(s, t) == {i \in 1..Len(s) : s[i] = t}

Max(S) == CHOOSE x \in S : \A y \in S : y <= x

(***************************************************************************)
(* get_mailbox_name: re.search(r'"([^"]+)"$', line), else line.split()[-1] *)
(***************************************************************************)
\* the regular expression matches when the line ends with a quote and the
\* quote before it is not adjacent (one or more non-quote characters between)
QuotedTail(line) ==
    LET qs == Positions(line, Q)
    IN  IF Len(line) >= 1 /\ Last(line) = Q /\ Cardinality(qs) >= 2
        THEN LET open == Max(qs \ {Len(line)})
             IN  IF open < Len(line) - 1
                 THEN <<TRUE, SubSeq(line, open + 1, Len(line) - 1)>>
                 ELSE <<FALSE, <<>>>>
        ELSE <<FALSE, <<>>>>

\* str.split()[-1]: trailing white space is dropped, then the text after the
\* last white space is returned
RECURSIVE RStrip(_)
RStrip(s) ==
    IF s # <<>> /\ Last(s) = SP THEN RStrip(SubSeq(s, 1, Len(s) - 1)) ELSE s

LastWord(line) ==
    LET t  == RStrip(line)
        ws == Positions(t, SP)
    IN  IF ws = {} THEN t ELSE SubSeq(t, Max(ws) + 1, Len(t))

\* str.split() is empty for a line of white space alone, and [-1] then raises
\* IndexError (line 15)
NoWord(line) == RStrip(line) = <<>>

get_mailbox_name(mailbox_string) ==
    LET m == QuotedTail(mailbox_string)
    IN  IF m[1] THEN m[2] ELSE LastWord(mailbox_string)

(***************************************************************************)
(* The four name formats of the source select loop (line 105).             *)
(***************************************************************************)
InboxPrefix == <<"INBOX.">>

\* a slip in the order of the list of line 105
NameFormats_PrefixFirst(mailbox_name) ==
    << mailbox_name,
       InboxPrefix \o mailbox_name,
       <<Q>> \o mailbox_name \o <<Q>>,
       <<Q>> \o InboxPrefix \o mailbox_name \o <<Q>> >>

NameFormats(mailbox_name) ==
    << mailbox_name,
       <<Q>> \o mailbox_name \o <<Q>>,
       InboxPrefix \o mailbox_name,
       <<Q>> \o InboxPrefix \o mailbox_name \o <<Q>> >>

(***************************************************************************)
(* Flag clean-up (line 135): str(f) of a bytes object f is b'...' with     *)
(* every backslash doubled; then .replace("b'\\", "").replace("'", "").     *)
(***************************************************************************)
RECURSIVE EscapeBytes(_)
EscapeBytes(f) ==
    IF f = <<>> THEN <<>>
    ELSE (IF Head(f) = BS THEN <<BS, BS>> ELSE <<Head(f)>>) \o EscapeBytes(Tail(f))

StrOfBytes(f) == <<"b", AP>> \o EscapeBytes(f) \o <<AP>>

CleanFlag(f) == Replace(Replace(StrOfBytes(f), <<"b", AP, BS>>, <<>>), <<AP>>, <<>>)

RECURSIVE CleanFlags(_)
CleanFlags(flags) ==
    IF flags = <<>> THEN <<>> ELSE <<CleanFlag(Head(flags))>> \o CleanFlags(Tail(flags))

FlagsStr(flags) == Join(CleanFlags(flags))

\* the flag literal handed to STORE (line 170): f"({flags_str})"
FlagLiteral(flags_str) == <<"(">> \o flags_str \o <<")">>


(***************************************************************************)
(* The IMAP servers, as far as the program can observe them.  imaplib      *)
(* sends mailbox arguments as written (it adds no quotes), so the server   *)
(* reads an argument as a quoted string or as an atom.                     *)
(***************************************************************************)
\* <<well-formed, mailbox named>> for a mailbox argument on the wire
ParseMailboxArg(arg) ==
    IF Len(arg) >= 2 /\ Head(arg) = Q /\ Last(arg) = Q
       /\ Q \notin {arg[i] : i \in 2..(Len(arg) - 1)}
    THEN <<TRUE, SubSeq(arg, 2, Len(arg) - 1)>>
    ELSE IF arg = <<>> \/ Q \in {arg[i] : i \in 1..Len(arg)}
                       \/ SP \in {arg[i] : i \in 1..Len(arg)}
         THEN <<FALSE, <<>>>>
         ELSE <<TRUE, arg>>

\* the words of a parenthesized flag list, as the server reads STORE's literal
RECURSIVE SplitWords(_, _)
SplitWords(s, cur) ==
    IF s = <<>> THEN (IF cur = <<>> THEN {} ELSE {cur})
    ELSE IF Head(s) = SP
         THEN (IF cur = <<>> THEN {} ELSE {cur}) \cup SplitWords(Tail(s), <<>>)
         ELSE SplitWords(Tail(s), Append(cur, Head(s)))

ParseFlagList(lit) ==
    IF Len(lit) >= 2 /\ Head(lit) = "(" /\ Last(lit) = ")"
    THEN SplitWords(SubSeq(lit, 2, Len(lit) - 1), <<>>)
    ELSE SplitWords(lit, <<>>)

(***************************************************************************)
(* Accounts the runs are explored on.                                      *)
(***************************************************************************)
Seen    == <<BS, "Seen">>
Flagged == <<BS, "Flagged">>
NonJunk == <<"NonJunk">>

Msg(body, flags) == [body |-> body, flags |-> flags]

ListLine(attr, shown) == <<attr, SP, Q, ".", Q, SP>> \o shown

\* what LIST answers on the source account w, one raw line per mailbox
SrcListing(w) ==
    CASE w = "A" -> << ListLine("(\\HasNoChildren)", <<"INBOX">>),
                       ListLine("(\\HasNoChildren)", <<"Work">>) >>
      [] w = "B" -> << ListLine("(\\Noselect)", <<"Lists">>),
                       ListLine("(\\HasNoChildren)", <<Q, "Sent", SP, "Items", Q>>) >>
      [] w = "C" -> << ListLine("(\\HasNoChildren)", <<"Archive">>) >>
      [] w = "D" -> << ListLine("(\\HasNoChildren)", <<"Work">>),
                       ListLine("(\\HasNoChildren)", <<"INBOX.", "Work">>) >>

\* the mailboxes of the source account w that can be selected, by their name
\* on the server, with their messages
SrcBoxes(w) ==
    CASE w = "A" -> ( <<"INBOX">> :> << Msg("b1", <<Seen, NonJunk>>),
                                        Msg("b2", <<Seen, Flagged>>) >> )
                    @@ ( <<"INBOX.", "Work">> :> << Msg("b3", <<NonJunk>>) >> )
      [] w = "B" -> ( <<"Sent", SP, "Items">> :> << Msg("b4", <<Flagged>>) >> )
      [] w = "C" -> ( <<"Archive">> :> <<>> )
      [] w = "D" -> ( <<"INBOX.", "Work">> :> << Msg("b5", <<Seen>>) >> )

\* the destination account before the job: d = "fresh" holds an empty INBOX,
\* d = "used" holds the mailboxes and messages of an earlier run
DstInit(d) ==
    CASE d = "fresh" -> ( <<"INBOX">> :> <<>> )
      [] d = "used"  -> ( <<"INBOX">> :> << [body |-> "old", flags |-> {}] >> )
                        @@ ( <<"Work">> :> <<>> )
                        @@ ( <<"Archive">> :> <<>> )

Job(s, d) == [src |-> s, dst |-> d]

\* the job lists (emails.txt) the runs are explored on
Configs ==
    { << Job("A", "fresh") >>,
      << Job("B", "fresh"), Job("C", "used") >>,
      << Job("C", "fresh"), Job("A", "used") >>,
      << Job("D", "fresh") >> }

None == <<"<none>">>

(***************************************************************************)
(* read_config_file (lines 17-47): the text of emails.txt, line by line.   *)
(***************************************************************************)
\* str.split(sep): the pieces between the occurrences of sep, empty ones kept
RECURSIVE Split(_, _)
Split(s, sep) ==
    LET ps == Positions(s, sep)
    IN  IF ps = {} THEN <<s>>
        ELSE LET p == CHOOSE x \in ps : \A y \in ps : x <= y
             IN  <<SubSeq(s, 1, p - 1)>> \o Split(SubSeq(s, p + 1, Len(s)), sep)

\* str.strip(): white space at both ends is dropped
RECURSIVE LStrip(_)
LStrip(s) == IF s # <<>> /\ Head(s) = SP THEN LStrip(Tail(s)) ELSE s

Strip(s) == LStrip(RStrip(s))

\* str.lower() on the spellings of a boolean
Lower(s) == [i \in 1..Len(s) |-> IF s[i] \in {"True", "TRUE"} THEN "true" ELSE s[i]]

\* line 34 with `and` in place of `or`: one side with three fields is enough
ValidSections_EitherSide(source_data, destination_data) ==
    Len(source_data) = 3 \/ Len(destination_data) = 3

\* line 34: both sections have 3 elements
ValidSections(source_data, destination_data) ==
    ~(Len(source_data) # 3 \/ Len(destination_data) # 3)

\* the first field of a section, the server, names the account of the job
Server(data) == IF data[1] = <<>> THEN "" ELSE data[1][1]

\* lines 24-37: the loop over the lines from line i on; ok is FALSE when a
\* line raises ValueError
RECURSIVE ParseLines(_, _, _, _)
ParseLines(lines, i, debug, jobs) ==
    IF i > Len(lines) THEN [ok |-> TRUE, debug_mode |-> debug, migrations |-> jobs]
    ELSE LET line == Strip(lines[i])
         IN  IF IsPrefix(<<"debug", "=">>, line)
             THEN ParseLines(lines, i + 1,
                             Lower(Split(line, "=")[2]) = <<"true">>, jobs)
             ELSE LET halves == Split(line, ";")
                  IN  IF Len(halves) # 2
                      THEN [ok |-> FALSE, debug_mode |-> debug, migrations |-> jobs]
                      ELSE LET source_data == Split(halves[1], ",")
                               destination_data == Split(halves[2], ",")
                           IN  IF ~ValidSections(source_data, destination_data)
                               THEN [ok |-> FALSE, debug_mode |-> debug,
                                     migrations |-> jobs]
                               ELSE ParseLines(lines, i + 1, debug,
                                        Append(jobs, Job(Server(source_data),
                                                         Server(destination_data))))

\* lines 19-47: a missing file raises FileNotFoundError at line 23
read_config_file(file) ==
    IF ~file.exists THEN [ok |-> FALSE, debug_mode |-> FALSE, migrations |-> <<>>]
    ELSE ParseLines(file.lines, 1, FALSE, <<>>)

\* the texts of emails.txt the exploration starts from
JobLine(j) ==
    <<j.src, ",", "user", ",", "secret", ";", j.dst, ",", "user", ",", "secret">>

DebugLine(v) == <<"debug", "=", v>>

FileOf(c) == [exists |-> TRUE, lines |-> [i \in 1..Len(c) |-> JobLine(c[i])]]

File(lines) == [exists |-> TRUE, lines |-> lines]

ConfigFiles ==
    {FileOf(c) : c \in Configs}
    \cup { File(<<DebugLine("True"), JobLine(Job("A", "fresh")) \o <<SP>>>>),
           \* a destination section of two fields, after a well-formed job
           File(<<JobLine(Job("C", "fresh")),
                  <<"A", ",", "user", ",", "secret", ";", "used", ",", "user">>>>),
           \* a source section of four fields, before a well-formed job
           File(<<<<"A", ",", "user", ",", "secret", ",", "x", ";",
                    "fresh", ",", "user", ",", "secret">>,
                  JobLine(Job("C", "fresh"))>>),
           \* an empty line after a well-formed job
           File(<<JobLine(Job("A", "fresh")), <<>>>>),
           \* a line of three sections
           File(<<JobLine(Job("B", "fresh")) \o <<";", "x">>>>),
           [exists |-> FALSE, lines |-> <<>>] }

\* what read_config_file gives on each of these texts
ConfigRead == [file \in ConfigFiles |-> read_config_file(file)]

(***************************************************************************)
(* Program state.                                                          *)
(***************************************************************************)
VARIABLES
    pc,            \* the statement the program is at
    emails,        \* the file emails.txt
    debug_mode,    \* the debug switch read_config_file returned
    migrations,    \* the job list read_config_file returned
    job,           \* index in migrations of the job being run (0: none yet)
    src_imap,      \* state of the source imaplib client, "unbound" before line 79
    dst_imap,      \* state of the destination imaplib client, "unbound" before line 87
    mailboxes,     \* data of src_imap.list()
    mbx,           \* position of the for loop of line 100 in mailboxes
    mailbox_name,  \* line 101
    fmt,           \* position of the for loop of line 105 in the four name formats
    messages,      \* the identifiers src_imap.search returned (line 121)
    mi,            \* position of the for loop of line 127 in messages
    flags,         \* line 133
    flags_str,     \* line 135
    msg_data,      \* body fetched at line 150
    dst_msg_num,   \* line 165
    srcSel,        \* mailbox selected on the source server
    srcReadonly,   \* the source mailbox was selected with EXAMINE
    srcSeen,       \* source messages a fetch has marked \Seen: <<mailbox, number>>
    dstBoxes,      \* destination server: mailbox name -> messages
    dstSubs,       \* destination server: subscribed names
    dstSel,        \* mailbox selected on the destination server
    calls,         \* every IMAP call issued so far, in order, with its result
    out,           \* every line printed so far, in order
    faults         \* calls that failed for an outside reason so far

vars == << pc, emails, debug_mode, migrations, job, src_imap, dst_imap, mailboxes, mbx, mailbox_name,
           fmt, messages, mi, flags, flags_str, msg_data, dst_msg_num, srcSel,
           srcReadonly, srcSeen, dstBoxes, dstSubs, dstSel, calls, out, faults >>

cfgVars == << emails, debug_mode, migrations, job >>
mbVars  == << mailboxes, mbx, mailbox_name, fmt >>
msgVars == << messages, mi, flags, flags_str, msg_data, dst_msg_num >>
srcSrv  == << srcReadonly, srcSeen >>
dstSrv  == << dstBoxes, dstSubs, dstSel >>

\* the message identifier of the current iteration of line 127
num == messages[mi]

\* the account pair of the running job
cur == migrations[job]

(***************************************************************************)
(* Results of a call: "OK", "NO" (a status other than OK), "ERR" (the call *)
(* raises imaplib.IMAP4.error: a BAD answer, a command illegal in the      *)
(* client's state, a broken connection), "EXC" (it raises another          *)
(* Exception, e.g. an OSError of the socket).  A call answers as the       *)
(* server's state says, unless it fails for an outside reason.  Each call  *)
(* is given the failures the code around it tells apart: "EXC" is offered  *)
(* where a handler names imaplib.IMAP4.error (create_mailbox) and at the   *)
(* connection set-up; elsewhere "ERR" stands for every raised exception.   *)
(***************************************************************************)
Results(natural, kinds) ==
    {natural} \cup (IF faults < MaxFaults THEN kinds ELSE {})

Charge(natural, r) ==
    faults' = IF r = natural THEN faults ELSE faults + 1

\* the statements of the body of the message loop
MsgPcs == {"fetch_flags", "fetch_header", "fetch_body", "append", "dst_select",
           "dst_search", "store"}

\* a call as issued: connection, command, arguments (arg: mailbox or item or
\* flag literal; num: message identifier; body: message literal; readonly),
\* its result, and where the program was: job, mailbox iteration (mbx) and
\* message iteration (it, 0 outside the message loop)
Call(conn, op, arg, n, body, r) ==
    [job |-> job, mbx |-> mbx, it |-> IF pc \in MsgPcs THEN num ELSE 0,
     conn |-> conn, op |-> op, arg |-> arg, num |-> n, body |-> body,
     readonly |-> FALSE, res |-> r]

\* a printed line: its text, and the job, mailbox iteration and message it names
Line(msg, n) == [job |-> job, mbx |-> mbx, msg |-> msg, num |-> n]

Issue(c) == calls' = Append(calls, c)
Say(l) == out' = Append(out, l)

\* migrate_emails without its except clauses: the exception ends main
Handlers_Uncaught(r) ==
    /\ Say(Line(IF r = "ERR" THEN "IMAP error" ELSE "Unexpected error", 0))
    /\ pc' = "exit"

\* a raised exception reaches the handlers of lines 180-183, then finally;
\* migrate_emails returns to main
Handlers(r) ==
    /\ Say(Line(IF r = "ERR" THEN "IMAP error" ELSE "Unexpected error", 0))
    /\ pc' = "logout_src"

(***************************************************************************)
(* main (lines 193-204) and the connection set-up (lines 76-91).           *)
(***************************************************************************)
Init ==
    /\ pc = "read_config"
    /\ emails \in ConfigFiles
    /\ debug_mode = FALSE
    /\ migrations = <<>>
    /\ job = 0
    /\ src_imap = "unbound"
    /\ dst_imap = "unbound"
    /\ mailboxes = <<>>
    /\ mbx = 0
    /\ mailbox_name = None
    /\ fmt = 0
    /\ messages = <<>>
    /\ mi = 0
    /\ flags = <<>>
    /\ flags_str = <<>>
    /\ msg_data = ""
    /\ dst_msg_num = 0
    /\ srcSel = None
    /\ srcReadonly = FALSE
    /\ srcSeen = {}
    /\ dstBoxes = << >>
    /\ dstSubs = {}
    /\ dstSel = None
    /\ calls = <<>>
    /\ out = <<>>
    /\ faults = 0

\* line 197: read_config_file(); lines 41-47 when the file is missing or a
\* line is not a job entry
ReadConfig ==
    /\ pc = "read_config"
    /\ LET r == ConfigRead[emails]
       IN  IF r.ok
           THEN /\ debug_mode' = r.debug_mode
                /\ migrations' = r.migrations
                /\ pc' = "main"
                /\ out' = out
           ELSE /\ Say(Line("Invalid 'emails.txt' file format", 0))
                /\ pc' = "exit_1"
                /\ UNCHANGED << debug_mode, migrations >>
    /\ UNCHANGED << emails, job, src_imap, dst_imap, mbVars, msgVars, srcSel, srcSrv,
                    dstSrv, calls, faults >>

\* line 199/204: the next job of the list starts, with fresh locals, on its
\* own pair of accounts
StartJob ==
    /\ pc = "main"
    /\ job < Len(migrations)
    /\ job' = job + 1
    /\ pc' = "connect_src"
    /\ src_imap' = "unbound"
    /\ dst_imap' = "unbound"
    /\ mailboxes' = <<>>
    /\ mbx' = 0
    /\ mailbox_name' = None
    /\ fmt' = 0
    /\ messages' = <<>>
    /\ mi' = 0
    /\ flags' = <<>>
    /\ flags_str' = <<>>
    /\ msg_data' = ""
    /\ dst_msg_num' = 0
    /\ srcSel' = None
    /\ srcReadonly' = FALSE
    /\ srcSeen' = {}
    /\ dstBoxes' = DstInit(migrations[job + 1].dst)
    /\ dstSubs' = {}
    /\ dstSel' = None
    /\ out' = Append(out, [job |-> job + 1, mbx |-> 0,
                           msg |-> "Starting migration process...", num |-> 0])
    /\ UNCHANGED << emails, debug_mode, migrations, calls, faults >>

\* line 199: the list is exhausted, main returns
Finish ==
    /\ pc = "main"
    /\ job = Len(migrations)
    /\ pc' = "exit"
    /\ UNCHANGED << cfgVars, srcSrv, src_imap, dst_imap, mbVars, msgVars, srcSel, dstSrv,
                    calls, out, faults >>

\* line 79: imaplib.IMAP4_SSL(src_server)
ConnectSrc ==
    /\ pc = "connect_src"
    /\ \E r \in Results("OK", {"EXC"}) :
        /\ Charge("OK", r)
        /\ Issue(Call("src", "connect", <<>>, 0, "", r))
        /\ IF r = "OK"
           THEN /\ src_imap' = "NONAUTH"
                /\ pc' = "login_src"
                /\ out' = out
           ELSE /\ src_imap' = src_imap
                /\ Handlers(r)
    /\ UNCHANGED << cfgVars, srcSrv, dst_imap, mbVars, msgVars, srcSel, dstSrv >>

\* line 80: src_imap.login; imaplib raises error on any status but OK
LoginSrc ==
    /\ pc = "login_src"
    /\ \E r \in Results("OK", {"ERR"}) :
        /\ Charge("OK", r)
        /\ Issue(Call("src", "login", <<>>, 0, "", r))
        /\ IF r = "OK"
           THEN /\ src_imap' = "AUTH"
                /\ pc' = "connect_dst"
                /\ out' = out
           ELSE /\ src_imap' = src_imap
                /\ Handlers(r)
    /\ UNCHANGED << cfgVars, srcSrv, dst_imap, mbVars, msgVars, srcSel, dstSrv >>

\* line 87: imaplib.IMAP4_SSL(dst_server)
ConnectDst ==
    /\ pc = "connect_dst"
    /\ \E r \in Results("OK", {"EXC"}) :
        /\ Charge("OK", r)
        /\ Issue(Call("dst", "connect", <<>>, 0, "", r))
        /\ IF r = "OK"
           THEN /\ dst_imap' = "NONAUTH"
                /\ pc' = "login_dst"
                /\ out' = out
           ELSE /\ dst_imap' = dst_imap
                /\ Handlers(r)
    /\ UNCHANGED << cfgVars, srcSrv, src_imap, mbVars, msgVars, srcSel, dstSrv >>

\* line 88: dst_imap.login
LoginDst ==
    /\ pc = "login_dst"
    /\ \E r \in Results("OK", {"ERR"}) :
        /\ Charge("OK", r)
        /\ Issue(Call("dst", "login", <<>>, 0, "", r))
        /\ IF r = "OK"
           THEN /\ dst_imap' = "AUTH"
                /\ pc' = "list"
                /\ out' = out
           ELSE /\ dst_imap' = dst_imap
                /\ Handlers(r)
    /\ UNCHANGED << cfgVars, srcSrv, src_imap, mbVars, msgVars, srcSel, dstSrv >>

\* lines 94-97: src_imap.list()
List ==
    /\ pc = "list"
    /\ \E r \in Results("OK", {"NO", "ERR"}) :
        /\ Charge("OK", r)
        /\ Issue(Call("src", "list", <<>>, 0, "", r))
        /\ CASE r = "OK" -> /\ mailboxes' = SrcListing(cur.src)
                            /\ pc' = "for_mailbox"
                            /\ out' = out
             [] r = "NO" -> /\ mailboxes' = mailboxes
                            /\ Say(Line("Error getting the list of mailboxes", 0))
                            /\ pc' = "logout_src"
             [] OTHER    -> /\ mailboxes' = mailboxes
                            /\ Handlers(r)
    /\ UNCHANGED << cfgVars, srcSrv, src_imap, dst_imap, mbx, mailbox_name, fmt, msgVars,
                    srcSel, dstSrv >>

(***************************************************************************)
(* The mailbox loop (lines 100-124).                                       *)
(***************************************************************************)
\* lines 100-102, and line 178 when the list is exhausted
ForMailbox ==
    /\ pc = "for_mailbox"
    /\ IF mbx < Len(mailboxes)
       THEN /\ mbx' = mbx + 1
            /\ mailbox_name' = get_mailbox_name(mailboxes[mbx + 1])
            /\ fmt' = 1
            /\ pc' = "select"
            /\ out' = Append(out, [job |-> job, mbx |-> mbx + 1,
                                   msg |-> "Mailbox:", num |-> 0])
       ELSE /\ Say(Line("Migration process finished.", 0))
            /\ pc' = "logout_src"
            /\ UNCHANGED << mbx, mailbox_name, fmt >>
    /\ UNCHANGED << cfgVars, srcSrv, src_imap, dst_imap, mailboxes, msgVars, srcSel, dstSrv,
                    calls, faults >>

\* the answer of the source server to EXAMINE arg
SrcSelectAnswer(arg) ==
    LET p == ParseMailboxArg(arg)
    IN  IF ~p[1] THEN "ERR"
        ELSE IF p[2] \in DOMAIN SrcBoxes(cur.src) THEN "OK" ELSE "NO"

\* the lines the loop of 105-115 prints after one attempt with result r
\* the else branch of the select loop without its continue
AfterSelectExhausted_FallThrough == "create"

\* lines 113-115: the else branch of the for loop ends the iteration (continue)
AfterSelectExhausted == "for_mailbox"

SelectLines(name_format, r) ==
    (CASE r = "OK" -> << Line("Mailbox successfully selected", 0) >>
       [] r = "NO" -> << >>
       [] OTHER    -> << Line("Error selecting", 0) >>)
    \o (IF r # "OK" /\ fmt = Len(NameFormats(mailbox_name))
        THEN << Line("Could not select mailbox. Skipping...", 0) >>
        ELSE << >>)

\* the select without readonly=True: SELECT, read-write
SrcSelectReadonly_Write == FALSE

\* line 107: readonly=True, the command is EXAMINE
SrcSelectReadonly == TRUE

\* lines 105-115: one attempt of the select loop
Select ==
    /\ pc = "select"
    /\ LET name_format == NameFormats(mailbox_name)[fmt]
           natural     == SrcSelectAnswer(name_format)
       IN  \E r \in Results(natural, {"NO", "ERR"}) :
            /\ Charge(natural, r)
            /\ Issue([Call("src", "select", name_format, 0, "", r)
                         EXCEPT !.readonly = SrcSelectReadonly])
            /\ out' = out \o SelectLines(name_format, r)
            /\ CASE r = "OK" -> /\ src_imap' = "SELECTED"
                                /\ srcSel' = ParseMailboxArg(name_format)[2]
                                /\ srcReadonly' = SrcSelectReadonly
                                /\ pc' = "create"
                                /\ fmt' = fmt
                 [] r = "NO" -> /\ src_imap' = "AUTH"
                                /\ srcSel' = None
                                /\ srcReadonly' = srcReadonly
                                /\ IF fmt < Len(NameFormats(mailbox_name))
                                   THEN fmt' = fmt + 1 /\ pc' = "select"
                                   ELSE fmt' = fmt /\ pc' = AfterSelectExhausted
                 [] OTHER    -> /\ UNCHANGED << src_imap, srcSel, srcReadonly >>
                                /\ IF fmt < Len(NameFormats(mailbox_name))
                                   THEN fmt' = fmt + 1 /\ pc' = "select"
                                   ELSE fmt' = fmt /\ pc' = AfterSelectExhausted
    /\ UNCHANGED << cfgVars, srcSeen, dst_imap, mailboxes, mbx, mailbox_name, msgVars,
                    dstSrv >>

\* the destination addressed by the format that selected the source mailbox
DstMailboxArg_SelectedFormat == NameFormats(mailbox_name)[fmt]

\* the mailbox argument of every destination command (lines 118, 157, 160)
DstMailboxArg == mailbox_name

\* the answer of the destination server to a command naming mailbox arg that
\* needs the mailbox to exist (when exists) or not to exist
DstNameAnswer(arg, exists) ==
    LET p == ParseMailboxArg(arg)
    IN  IF ~p[1] THEN "ERR"
        ELSE IF (p[2] \in DOMAIN dstBoxes) = exists THEN "OK" ELSE "NO"

\* create_mailbox, line 66: imap.create(mailbox_name)
Create ==
    /\ pc = "create"
    /\ LET natural == DstNameAnswer(DstMailboxArg, FALSE)
       IN  \E r \in Results(natural, {"NO", "ERR", "EXC"}) :
            /\ Charge(natural, r)
            /\ Issue(Call("dst", "create", DstMailboxArg, 0, "", r))
            /\ dstBoxes' = IF r = "OK"
                           THEN (ParseMailboxArg(DstMailboxArg)[2] :> <<>>) @@ dstBoxes
                           ELSE dstBoxes
            /\ CASE r \in {"OK", "NO"} -> pc' = "subscribe" /\ out' = out
                 [] r = "ERR" -> /\ Say(Line("Could not create or subscribe to mailbox", 0))
                                 /\ pc' = "search"
                 [] OTHER     -> Handlers(r)
    /\ UNCHANGED << cfgVars, srcSrv, src_imap, dst_imap, mbVars, msgVars, srcSel, dstSubs, dstSel >>

\* create_mailbox, lines 67-70: imap.subscribe(mailbox_name)
Subscribe ==
    /\ pc = "subscribe"
    /\ LET natural == DstNameAnswer(DstMailboxArg, TRUE)
       IN  \E r \in Results(natural, {"NO", "ERR", "EXC"}) :
            /\ Charge(natural, r)
            /\ Issue(Call("dst", "subscribe", DstMailboxArg, 0, "", r))
            /\ dstSubs' = IF r = "OK"
                          THEN dstSubs \cup {ParseMailboxArg(DstMailboxArg)[2]}
                          ELSE dstSubs
            /\ CASE r \in {"OK", "NO"} -> /\ Say(Line("Mailbox created and subscribed", 0))
                                          /\ pc' = "search"
                 [] r = "ERR" -> /\ Say(Line("Could not create or subscribe to mailbox", 0))
                                 /\ pc' = "search"
                 [] OTHER     -> Handlers(r)
    /\ UNCHANGED << cfgVars, srcSrv, src_imap, dst_imap, mbVars, msgVars, srcSel, dstBoxes, dstSel >>

\* a command on the selected mailbox is refused by imaplib in any other state
NeedsSelected(client) == IF client = "SELECTED" THEN "OK" ELSE "ERR"

\* the identifiers taken from the end of the list: last message first
Iota_Reversed(n) == [i \in 1..n |-> n + 1 - i]

\* the identifiers a search lists for a mailbox of n messages: 1 to n
Iota(n) == [i \in 1..n |-> i]

\* lines 121-124: src_imap.search(None, 'ALL')
Search ==
    /\ pc = "search"
    /\ LET natural == NeedsSelected(src_imap)
       IN  \E r \in Results(natural, {"NO", "ERR"}) :
            /\ Charge(natural, r)
            /\ Issue(Call("src", "search", <<>>, 0, "", r))
            /\ CASE r = "OK" -> /\ messages' = Iota(Len(SrcBoxes(cur.src)[srcSel]))
                                /\ mi' = 0
                                /\ pc' = "for_message"
                                /\ out' = out
                 [] r = "NO" -> /\ Say(Line("Error searching for messages", 0))
                                /\ pc' = "for_mailbox"
                                /\ UNCHANGED << messages, mi >>
                 [] OTHER    -> /\ Handlers(r)
                                /\ UNCHANGED << messages, mi >>
    /\ UNCHANGED << cfgVars, srcSrv, src_imap, dst_imap, mbVars, flags, flags_str, msg_data,
                    dst_msg_num, srcSel, dstSrv >>

(***************************************************************************)
(* The message loop (lines 127-176).                                       *)
(***************************************************************************)
\* line 127, and line 176 when the identifiers are exhausted
ForMessage ==
    /\ pc = "for_message"
    /\ IF mi < Len(messages)
       THEN /\ mi' = mi + 1
            /\ pc' = "fetch_flags"
            /\ out' = out
       ELSE /\ Say(Line("Migration complete for mailbox", 0))
            /\ pc' = "for_mailbox"
            /\ mi' = mi
    /\ UNCHANGED << cfgVars, srcSrv, src_imap, dst_imap, mbVars, messages, flags, flags_str,
                    msg_data, dst_msg_num, srcSel, dstSrv, calls, faults >>

\* the message of the selected source mailbox with identifier n
SrcMessage(n) == SrcBoxes(cur.src)[srcSel][n]

\* lines 129-135: src_imap.fetch(num, '(FLAGS)') and the flag clean-up
FetchFlags ==
    /\ pc = "fetch_flags"
    /\ LET natural == NeedsSelected(src_imap)
       IN  \E r \in Results(natural, {"NO", "ERR"}) :
            /\ Charge(natural, r)
            /\ Issue(Call("src", "fetch", <<"(FLAGS)">>, num, "", r))
            /\ CASE r = "OK" -> /\ flags' = SrcMessage(num).flags
                                /\ flags_str' = FlagsStr(flags')
                                /\ pc' = "fetch_header"
                                /\ out' = out
                 [] r = "NO" -> /\ Say(Line("Error getting the flags of message", num))
                                /\ pc' = "for_message"
                                /\ UNCHANGED << flags, flags_str >>
                 [] OTHER    -> /\ Handlers(r)
                                /\ UNCHANGED << flags, flags_str >>
    /\ UNCHANGED << cfgVars, srcSrv, src_imap, dst_imap, mbVars, messages, mi, msg_data,
                    dst_msg_num, srcSel, dstSrv >>

\* line 145: 'Read' if str(b'\\Seen') in [str(f) for f in flags] else 'Unread'
ReadStatus(fl) ==
    IF StrOfBytes(Seen) \in {StrOfBytes(fl[i]) : i \in 1..Len(fl)}
    THEN "Read" ELSE "Unread"

\* lines 138-147: src_imap.fetch(num, '(RFC822.HEADER)'), used for printing only
FetchHeader ==
    /\ pc = "fetch_header"
    /\ LET natural == NeedsSelected(src_imap)
       IN  \E r \in Results(natural, {"NO", "ERR"}) :
            /\ Charge(natural, r)
            /\ Issue(Call("src", "fetch", <<"(RFC822.HEADER)">>, num, "", r))
            /\ CASE r = "OK" -> /\ Say(Line(ReadStatus(flags), num))
                                /\ pc' = "fetch_body"
                 [] r = "NO" -> /\ out' = out
                                /\ pc' = "fetch_body"
                 [] OTHER    -> Handlers(r)
    /\ UNCHANGED << cfgVars, srcSrv, src_imap, dst_imap, mbVars, msgVars, srcSel, dstSrv >>

\* FETCH RFC822 is not a PEEK: in a mailbox selected read-write the server
\* marks the message \Seen; in one opened with EXAMINE it changes nothing
SeenByFetch(n) ==
    LET fl == SrcMessage(n).flags
    IN  IF srcReadonly \/ (\E i \in 1..Len(fl) : fl[i] = Seen) THEN {}
        ELSE {<<srcSel, n>>}

\* lines 150-153: src_imap.fetch(num, '(RFC822)')
FetchBody ==
    /\ pc = "fetch_body"
    /\ LET natural == NeedsSelected(src_imap)
       IN  \E r \in Results(natural, {"NO", "ERR"}) :
            /\ Charge(natural, r)
            /\ Issue(Call("src", "fetch", <<"(RFC822)">>, num, "", r))
            /\ CASE r = "OK" -> /\ msg_data' = SrcMessage(num).body
                                /\ srcSeen' = srcSeen \cup SeenByFetch(num)
                                /\ pc' = "append"
                                /\ out' = out
                 [] r = "NO" -> /\ Say(Line("Error getting message", num))
                                /\ pc' = "for_message"
                                /\ UNCHANGED << msg_data, srcSeen >>
                 [] OTHER    -> /\ Handlers(r)
                                /\ UNCHANGED << msg_data, srcSeen >>
    /\ UNCHANGED << cfgVars, srcReadonly, src_imap, dst_imap, mbVars, messages, mi, flags, flags_str,
                    dst_msg_num, srcSel, dstSrv >>

\* the message loop without the except clause: the exception ends the process
SaveFailed_Abort ==
    /\ out' = out
    /\ pc' = "exit"

\* the except clause of lines 173-174
SaveFailed ==
    /\ Say(Line("Error saving message", num))
    /\ pc' = "for_message"

\* line 172
Migrated ==
    /\ Say(Line("Message migrated", num))
    /\ pc' = "for_message"

\* line 157: dst_imap.append(mailbox_name, None, None, msg_data[0][1]); the
\* status it returns is not looked at
AppendMsg ==
    /\ pc = "append"
    /\ LET natural == DstNameAnswer(DstMailboxArg, TRUE)
       IN  \E r \in Results(natural, {"NO", "ERR"}) :
            /\ Charge(natural, r)
            /\ Issue(Call("dst", "append", DstMailboxArg, 0, msg_data, r))
            /\ dstBoxes' =
                 IF r = "OK"
                 THEN LET b == ParseMailboxArg(DstMailboxArg)[2]
                      IN  [dstBoxes EXCEPT ![b] =
                              Append(@, [body |-> msg_data, flags |-> {}])]
                 ELSE dstBoxes
            /\ IF r \in {"OK", "NO"}
               THEN pc' = "dst_select" /\ out' = out
               ELSE SaveFailed
    /\ UNCHANGED << cfgVars, srcSrv, src_imap, dst_imap, mbVars, msgVars, srcSel, dstSubs, dstSel >>

\* line 160: dst_imap.select(mailbox_name); the status is not looked at, and
\* imaplib leaves the client in state AUTH when the status is not OK
DstSelect ==
    /\ pc = "dst_select"
    /\ LET natural == DstNameAnswer(DstMailboxArg, TRUE)
       IN  \E r \in Results(natural, {"NO", "ERR"}) :
            /\ Charge(natural, r)
            /\ Issue(Call("dst", "select", DstMailboxArg, 0, "", r))
            /\ CASE r = "OK" -> /\ dst_imap' = "SELECTED"
                                /\ dstSel' = ParseMailboxArg(DstMailboxArg)[2]
                                /\ pc' = "dst_search"
                                /\ out' = out
                 [] r = "NO" -> /\ dst_imap' = "AUTH"
                                /\ dstSel' = None
                                /\ pc' = "dst_search"
                                /\ out' = out
                 [] OTHER    -> /\ UNCHANGED << dst_imap, dstSel >>
                                /\ SaveFailed
    /\ UNCHANGED << cfgVars, srcSrv, src_imap, mbVars, msgVars, srcSel, dstBoxes, dstSubs >>

\* lines 163-165: dst_imap.search(None, 'ALL') and the choice of the last
\* identifier it lists
DstSearch ==
    /\ pc = "dst_search"
    /\ LET natural == NeedsSelected(dst_imap)
       IN  \E r \in Results(natural, {"NO", "ERR"}) :
            /\ Charge(natural, r)
            /\ Issue(Call("dst", "search", <<>>, 0, "", r))
            /\ CASE r = "OK" /\ dstBoxes[dstSel] # <<>> ->
                        /\ dst_msg_num' = Len(dstBoxes[dstSel])
                        /\ pc' = "store"
                        /\ IF debug_mode
                           THEN Say(Line("Applying flags", num))
                           ELSE out' = out
                 [] r = "OK" /\ dstBoxes[dstSel] = <<>> ->
                        /\ dst_msg_num' = dst_msg_num
                        /\ Migrated
                 [] r = "NO" ->
                        /\ dst_msg_num' = dst_msg_num
                        /\ Migrated
                 [] OTHER ->
                        /\ dst_msg_num' = dst_msg_num
                        /\ SaveFailed
    /\ UNCHANGED << cfgVars, srcSrv, src_imap, dst_imap, mbVars, messages, mi, flags, flags_str,
                    msg_data, srcSel, dstSrv >>

\* the store with FLAGS in place of +FLAGS, which replaces the flags
StoreEffect_Replace(old, new) == new

\* line 170: the command is +FLAGS, which adds the listed flags to those the
\* message has
StoreEffect(old, new) == old \cup new

\* lines 168-172: dst_imap.store(dst_msg_num, '+FLAGS', f"({flags_str})")
Store ==
    /\ pc = "store"
    /\ LET natural == NeedsSelected(dst_imap)
           literal == FlagLiteral(flags_str)
       IN  \E r \in Results(natural, {"NO", "ERR"}) :
            /\ Charge(natural, r)
            /\ Issue(Call("dst", "store", literal, dst_msg_num, "", r))
            /\ dstBoxes' =
                 IF r = "OK"
                 THEN [dstBoxes EXCEPT ![dstSel][dst_msg_num].flags =
                                           StoreEffect(@, ParseFlagList(literal))]
                 ELSE dstBoxes
            /\ IF r \in {"OK", "NO"} THEN Migrated ELSE SaveFailed
    /\ UNCHANGED << cfgVars, srcSrv, src_imap, dst_imap, mbVars, msgVars, srcSel, dstSubs, dstSel >>

(***************************************************************************)
(* finally (lines 184-190): both logouts sit in one try with a bare except *)
(***************************************************************************)
\* line 187: src_imap.logout(); an unbound src_imap raises NameError
LogoutSrc ==
    /\ pc = "logout_src"
    /\ IF src_imap = "unbound"
       THEN /\ pc' = "main"
            /\ UNCHANGED << src_imap, calls, faults >>
       ELSE \E r \in Results("OK", {"ERR"}) :
            /\ Charge("OK", r)
            /\ Issue(Call("src", "logout", <<>>, 0, "", r))
            /\ src_imap' = "LOGOUT"
            /\ pc' = IF r = "OK" THEN "logout_dst" ELSE "main"
    /\ UNCHANGED << cfgVars, srcSrv, dst_imap, mbVars, msgVars, srcSel, dstSrv, out >>

\* line 188: dst_imap.logout(); an unbound dst_imap raises NameError
LogoutDst ==
    /\ pc = "logout_dst"
    /\ IF dst_imap = "unbound"
       THEN /\ pc' = "main"
            /\ UNCHANGED << dst_imap, calls, faults >>
       ELSE \E r \in Results("OK", {"ERR"}) :
            /\ Charge("OK", r)
            /\ Issue(Call("dst", "logout", <<>>, 0, "", r))
            /\ dst_imap' = "LOGOUT"
            /\ pc' = "main"
    /\ UNCHANGED << cfgVars, srcSrv, src_imap, mbVars, msgVars, srcSel, dstSrv, out >>

Next ==
    \/ ReadConfig
    \/ StartJob \/ Finish
    \/ ConnectSrc \/ LoginSrc \/ ConnectDst \/ LoginDst \/ List
    \/ ForMailbox \/ Select \/ Create \/ Subscribe \/ Search
    \/ ForMessage \/ FetchFlags \/ FetchHeader \/ FetchBody
    \/ AppendMsg \/ DstSelect \/ DstSearch \/ Store
    \/ LogoutSrc \/ LogoutDst

Spec == Init /\ [][Next]_vars

\* the program is one thread whose calls each return or raise: whenever a
\* statement can run, one does
FairSpec == Spec /\ WF_vars(Next)

(***************************************************************************)
(* get_mailbox_name on its own (lines 8-15): every line of at most         *)
(* MaxLineLen tokens over quotes, spaces and two name characters.          *)
(***************************************************************************)
LineAlphabet == {Q, SP, "a", "."}

Lines == UNION {[1..n -> LineAlphabet] : n \in 0..MaxLineLen}

InitNames ==
    /\ pc = "resolve"
    /\ emails = File(<<>>)
    /\ debug_mode = FALSE
    /\ migrations = <<>>
    /\ job = 0
    /\ src_imap = "unbound"
    /\ dst_imap = "unbound"
    /\ \E line \in Lines : mailboxes = <<line>>
    /\ mbx = 1
    /\ mailbox_name = None
    /\ fmt = 0
    /\ messages = <<>>
    /\ mi = 0
    /\ flags = <<>>
    /\ flags_str = <<>>
    /\ msg_data = ""
    /\ dst_msg_num = 0
    /\ srcSel = None
    /\ srcReadonly = FALSE
    /\ srcSeen = {}
    /\ dstBoxes = << >>
    /\ dstSubs = {}
    /\ dstSel = None
    /\ calls = <<>>
    /\ out = <<>>
    /\ faults = 0

\* the call get_mailbox_name(mailboxes[mbx]): it returns the name, or raises
\* at line 15
Resolve ==
    /\ pc = "resolve"
    /\ LET m == QuotedTail(mailboxes[mbx])
       IN  IF ~m[1] /\ NoWord(mailboxes[mbx])
           THEN /\ pc' = "raised"
                /\ mailbox_name' = mailbox_name
           ELSE /\ pc' = "resolved"
                /\ mailbox_name' = get_mailbox_name(mailboxes[mbx])
    /\ UNCHANGED << cfgVars, srcSrv, src_imap, dst_imap, mailboxes, mbx, fmt, msgVars, srcSel,
                    dstSrv, calls, out, faults >>

NextNames == Resolve

SpecNames == InitNames /\ [][NextNames]_vars

(***************************************************************************)
(* Vocabulary of the properties.                                           *)
(***************************************************************************)
Idx(q) == 1..Len(q)

\* migrate_emails has returned for the job numbered job
JobDone == pc = "main" /\ job >= 1

\* positions in calls of the calls issued in mailbox iteration k of job j
CallsIn(j, k) == {i \in Idx(calls) : calls[i].job = j /\ calls[i].mbx = k}

IsCall(i, conn, op) == calls[i].conn = conn /\ calls[i].op = op

\* the source select attempts of mailbox iteration k of job j, in order
SelectAttempts(j, k) ==
    SelectSeq(calls, LAMBDA c : c.job = j /\ c.mbx = k /\ c.conn = "src"
                                /\ c.op = "select")

\* iteration k of job j selected its source mailbox
Selected(j, k) == \E i \in CallsIn(j, k) : IsCall(i, "src", "select") /\ calls[i].res = "OK"

\* all four formats were tried and none was answered OK
SelectFailed(j, k) ==
    /\ Len(SelectAttempts(j, k)) = 4
    /\ \A i \in 1..4 : SelectAttempts(j, k)[i].res # "OK"

\* the raw lines the source of job j lists, and the name the Resolver gives line k
Listing(j) == SrcListing(migrations[j].src)
Canonical(j, k) == get_mailbox_name(Listing(j)[k])

\* the messages of the source mailbox that iteration k of job j selected
SelectedBox(j, k) ==
    LET i == CHOOSE i \in CallsIn(j, k) : IsCall(i, "src", "select") /\ calls[i].res = "OK"
    IN  SrcBoxes(migrations[j].src)[ParseMailboxArg(calls[i].arg)[2]]

\* the lines printed with text msg in iteration k of job j about message n
LinesAbout(j, k, n, msgs) ==
    {i \in Idx(out) : out[i].job = j /\ out[i].mbx = k /\ out[i].num = n
                      /\ out[i].msg \in msgs}

\* positions of the appends issued for message n of iteration k of job j
AppendsFor(j, k, n) ==
    {i \in CallsIn(j, k) : IsCall(i, "dst", "append") /\ calls[i].it = n}

FlagSet(fl) == {fl[i] : i \in Idx(fl)}

(***************************************************************************)
(* C1.  In a run where every IMAP call succeeds, every message of every    *)
(* selected source mailbox is appended exactly once, with its body, to the *)
(* destination mailbox of the canonical name, and the destination copy     *)
(* then carries every flag the source message had; an empty mailbox gives  *)
(* no append.                                                              *)
(***************************************************************************)
\* no call failed for an outside reason, the mailbox of iteration k was
\* selected, and every call of the iteration past the select probing was
\* answered OK
AllCallsSucceed(j, k) ==
    /\ faults = 0
    /\ Selected(j, k)
    /\ \A i \in CallsIn(j, k) : IsCall(i, "src", "select") \/ calls[i].res = "OK"

AppendedOnce(j, k, n) ==
    Cardinality({i \in Idx(calls) :
                    /\ calls[i].job = j
                    /\ IsCall(i, "dst", "append")
                    /\ calls[i].arg = Canonical(j, k)
                    /\ calls[i].body = SelectedBox(j, k)[n].body}) = 1

CopyHasFlags(j, k, n) ==
    /\ Canonical(j, k) \in DOMAIN dstBoxes
    /\ \E d \in Idx(dstBoxes[Canonical(j, k)]) :
          /\ dstBoxes[Canonical(j, k)][d].body = SelectedBox(j, k)[n].body
          /\ FlagSet(SelectedBox(j, k)[n].flags) \subseteq dstBoxes[Canonical(j, k)][d].flags

\* the part of C1 about bodies alone: one append per message, none for an
\* empty mailbox
C1_BodiesAppendedOnce ==
    JobDone =>
      \A k \in Idx(Listing(job)) :
         AllCallsSucceed(job, k) =>
            /\ \A n \in Idx(SelectedBox(job, k)) : AppendedOnce(job, k, n)
            /\ SelectedBox(job, k) = <<>> =>
                  ~\E i \in CallsIn(job, k) : IsCall(i, "dst", "append")

\* C1 as claimed: one append per message and the copy carries the source flags
C1_CopiedWithFlags ==
    JobDone =>
      \A k \in Idx(Listing(job)) :
         AllCallsSucceed(job, k) =>
            /\ \A n \in Idx(SelectedBox(job, k)) :
                  AppendedOnce(job, k, n) /\ CopyHasFlags(job, k, n)
            /\ SelectedBox(job, k) = <<>> =>
                  ~\E i \in CallsIn(job, k) : IsCall(i, "dst", "append")

(***************************************************************************)
(* C2.  The source select attempts of a mailbox are issued in the order    *)
(* name, "name", INBOX.name, "INBOX.name", each read-only, each only after *)
(* every earlier one failed, and none after the first OK.                  *)
(***************************************************************************)
ExpectedFormat(name, i) ==
    CASE i = 1 -> name
      [] i = 2 -> <<Q>> \o name \o <<Q>>
      [] i = 3 -> <<"INBOX.">> \o name
      [] i = 4 -> <<Q, "INBOX.">> \o name \o <<Q>>

C2_SelectOrder ==
    \A j \in 1..job : \A k \in Idx(Listing(j)) :
       LET a == SelectAttempts(j, k)
       IN  /\ Len(a) <= 4
           /\ \A i \in Idx(a) :
                 /\ a[i].arg = ExpectedFormat(Canonical(j, k), i)
                 /\ a[i].readonly
                 /\ i < Len(a) => a[i].res # "OK"

\* a mailbox was selected by the third format after two failures, and the
\* program has moved on
C2_Witness ==
    \E k \in Idx(mailboxes) :
       /\ Len(SelectAttempts(job, k)) = 3
       /\ SelectAttempts(job, k)[3].res = "OK"
       /\ pc = "search"

(***************************************************************************)
(* C3.  Every destination command that names a mailbox (create, subscribe, *)
(* append, select) names the canonical name the Resolver gave for the      *)
(* listing line, whichever format selected the source mailbox.             *)
(***************************************************************************)
C3_CanonicalOnDestination ==
    \A i \in Idx(calls) :
       calls[i].conn = "dst" /\ calls[i].op \in {"create", "subscribe", "append", "select"}
          => calls[i].arg = Canonical(calls[i].job, calls[i].mbx)

\* a mailbox selected by the INBOX. format has had a message appended
C3_Witness ==
    \E k \in Idx(mailboxes) :
       /\ Len(SelectAttempts(job, k)) >= 3
       /\ Selected(job, k)
       /\ \E i \in CallsIn(job, k) : IsCall(i, "dst", "append") /\ calls[i].res = "OK"
       /\ \E i \in CallsIn(job, k) : IsCall(i, "dst", "select")

(***************************************************************************)
(* C4.  When all four select formats fail for a mailbox, no create,        *)
(* subscribe, search, fetch, append or store is issued for it, and the job *)
(* goes on with the next listed mailbox.                                   *)
(***************************************************************************)
\* the position in calls of the fourth failed select of iteration k of job j
LastAttempt(j, k) ==
    Max({i \in CallsIn(j, k) : IsCall(i, "src", "select")})

C4_SkipUnselectable ==
    \A j \in 1..job : \A k \in Idx(Listing(j)) :
       SelectFailed(j, k) =>
          /\ \A i \in CallsIn(j, k) :
                calls[i].op \notin {"create", "subscribe", "search", "fetch",
                                    "append", "store"}
                /\ ~IsCall(i, "dst", "select")
          /\ LET p == LastAttempt(j, k)
             IN  /\ p = Len(calls) => pc \in {"for_mailbox", "select", "logout_src"}
                 /\ p < Len(calls) =>
                       IF k < Len(Listing(j))
                       THEN /\ calls[p + 1].job = j
                            /\ calls[p + 1].mbx = k + 1
                            /\ calls[p + 1].conn = "src"
                            /\ calls[p + 1].op = "select"
                       ELSE /\ calls[p + 1].job = j
                            /\ calls[p + 1].op = "logout"
                 /\ p = Len(calls) /\ pc = "select" => mbx = k + 1
                 /\ p = Len(calls) /\ pc = "logout_src" =>
                       /\ k = Len(Listing(j))
                       /\ out[Len(out)].msg = "Migration process finished."

\* an unselectable mailbox was skipped and the mailbox listed after it was
\* selected
C4_Witness ==
    \E k \in Idx(mailboxes) :
       /\ SelectFailed(job, k)
       /\ Selected(job, k + 1)

(***************************************************************************)
(* C5.  When the fetch of the flags or of the body of a message fails (a   *)
(* status other than OK, or a raised error), that message is skipped with  *)
(* one printed error naming it, no append is issued for it, and every      *)
(* other message of the mailbox is still fetched and appended.             *)
(***************************************************************************)
FetchCallsFor(j, k, n) ==
    {i \in CallsIn(j, k) : IsCall(i, "src", "fetch") /\ calls[i].it = n}

C5_FetchFailureSkipsOneMessage ==
    JobDone =>
      \A i \in Idx(calls) :
         /\ calls[i].job = job
         /\ IsCall(i, "src", "fetch")
         /\ calls[i].arg \in {<<"(FLAGS)">>, <<"(RFC822)">>}
         /\ calls[i].res # "OK"
         => LET k == calls[i].mbx
                n == calls[i].it
            IN  /\ AppendsFor(job, k, n) = {}
                /\ Cardinality(LinesAbout(job, k, n,
                       {"Error getting the flags of message", "Error getting message"})) = 1
                /\ \A n2 \in Idx(SelectedBox(job, k)) \ {n} :
                      /\ FetchCallsFor(job, k, n2) # {}
                      /\ (\A f \in FetchCallsFor(job, k, n2) : calls[f].res = "OK")
                            => AppendsFor(job, k, n2) # {}

(***************************************************************************)
(* C6.  When the append or the flag store of a message fails (a status     *)
(* other than OK, or a raised error), the failure is printed for that      *)
(* message, the message is not reported as migrated, and the remaining     *)
(* messages of the mailbox are still processed.                            *)
(***************************************************************************)
C6_SaveFailureLogged ==
    JobDone =>
      \A i \in Idx(calls) :
         /\ calls[i].job = job
         /\ calls[i].conn = "dst"
         /\ calls[i].op \in {"append", "store"}
         /\ calls[i].res # "OK"
         => LET k == calls[i].mbx
                n == calls[i].it
            IN  /\ LinesAbout(job, k, n, {"Error saving message"}) # {}
                /\ LinesAbout(job, k, n, {"Message migrated"}) = {}
                /\ \A n2 \in Idx(SelectedBox(job, k)) :
                      n2 > n => FetchCallsFor(job, k, n2) # {}

(***************************************************************************)
(* C7.  An exception raised while one mailbox is processed (in its search, *)
(* its fetches or its transfer) is caught within that mailbox's            *)
(* processing, and every mailbox listed after it is still processed in the *)
(* same job.                                                               *)
(***************************************************************************)
\* call i belongs to the search, the fetches or the transfer of a mailbox
InMailboxWork(i) ==
    \/ calls[i].conn = "src" /\ calls[i].op \in {"search", "fetch"}
    \/ calls[i].conn = "dst" /\ calls[i].op \in {"append", "select", "search", "store"}

C7_MailboxFailureIsolated ==
    JobDone =>
      \A i \in Idx(calls) :
         /\ calls[i].job = job
         /\ InMailboxWork(i)
         /\ calls[i].res \in {"ERR", "EXC"}
         => \A k2 \in Idx(Listing(job)) :
               k2 > calls[i].mbx =>
                  \E i2 \in CallsIn(job, k2) : IsCall(i2, "src", "select")

(***************************************************************************)
(* C8.  Whatever create and subscribe answer on the destination (OK, a     *)
(* status other than OK, or any raised error), the search of the mailbox   *)
(* is still attempted and the job is not failed.                           *)
(***************************************************************************)
C8_ProvisioningNeverFatal ==
    JobDone =>
      \A i \in Idx(calls) :
         /\ calls[i].job = job
         /\ calls[i].conn = "dst"
         /\ calls[i].op \in {"create", "subscribe"}
         => \E i2 \in CallsIn(job, calls[i].mbx) : IsCall(i2, "src", "search")

(***************************************************************************)
(* C9.  On every exit of migrate_emails a logout is attempted on each      *)
(* connection that was opened, the destination's also when the source's    *)
(* logout fails.                                                           *)
(***************************************************************************)
Opened(j, conn) ==
    \E i \in Idx(calls) :
       calls[i].job = j /\ IsCall(i, conn, "connect") /\ calls[i].res = "OK"

C9_BothLoggedOut ==
    JobDone =>
      \A conn \in {"src", "dst"} :
         Opened(job, conn) =>
            \E i \in Idx(calls) : calls[i].job = job /\ IsCall(i, conn, "logout")

(***************************************************************************)
(* C10.  When connecting, logging in or listing fails for a job, no        *)
(* select, create, fetch, append or store is issued for that job, the      *)
(* failure is printed, and every later job of the list is still started,   *)
(* in list order.                                                          *)
(***************************************************************************)
SetupFailed(j) ==
    \E i \in Idx(calls) :
       /\ calls[i].job = j
       /\ calls[i].op \in {"connect", "login", "list"}
       /\ calls[i].res # "OK"

Started(j) == \E i \in Idx(calls) : calls[i].job = j /\ IsCall(i, "src", "connect")

C10_JobFailureIsolated ==
    /\ \A j \in 1..job :
          SetupFailed(j) =>
             /\ \A i \in Idx(calls) :
                   calls[i].job = j =>
                      calls[i].op \notin {"select", "create", "subscribe", "search",
                                          "fetch", "append", "store"}
             /\ \E l \in Idx(out) :
                   /\ out[l].job = j
                   /\ out[l].msg \in {"IMAP error", "Unexpected error",
                                      "Error getting the list of mailboxes"}
    /\ \A i \in 1..(Len(calls) - 1) : calls[i].job <= calls[i + 1].job
    /\ pc = "exit" => \A j \in Idx(migrations) : Started(j)
    /\ pc # "exit" /\ pc # "main" /\ pc # "connect_src" => \A j \in 1..job : Started(j)

\* the first job failed at login or list, and the second job has connected
C10_Witness ==
    /\ job = 2
    /\ SetupFailed(1)
    /\ \E i \in Idx(calls) : calls[i].job = 1 /\ calls[i].op \in {"login", "list"}
                             /\ calls[i].res # "OK"
    /\ Started(2)


(***************************************************************************)
(* The configuration file.                                                 *)
(***************************************************************************)
\* a job entry read as text: one ';' with two ',' on each side of it
EntryWellFormed(line) ==
    /\ Cardinality(Positions(line, ";")) = 1
    /\ LET semi == CHOOSE p \in Positions(line, ";") : TRUE
       IN  /\ Cardinality({p \in Positions(line, ",") : p < semi}) = 2
           /\ Cardinality({p \in Positions(line, ",") : p > semi}) = 2

IsDebugLine(line) == Len(line) >= 2 /\ line[1] = "debug" /\ line[2] = "="

MalformedEntries ==
    {i \in 1..Len(emails.lines) :
        ~IsDebugLine(emails.lines[i]) /\ ~EntryWellFormed(emails.lines[i])}

UsagePrinted == \E i \in Idx(out) : out[i].msg = "Invalid 'emails.txt' file format"

\* C11: when emails.txt holds a malformed job entry, no IMAP call is ever
\* issued and no job is ever started, whatever well-formed entries precede
\* or follow it; the program leaves read_config_file only through the usage
\* message and exit status 1.
C11_MalformedEntryStopsBeforeAnyConnection ==
    (emails.exists /\ MalformedEntries # {})
        => /\ calls = <<>>
           /\ job = 0
           /\ migrations = <<>>
           /\ pc \in {"read_config", "exit_1"}
           /\ pc = "exit_1" => UsagePrinted

\* C11 happens: the program has exited on a file whose first entry is a
\* well-formed job and whose second entry is malformed
C11_Witness ==
    /\ pc = "exit_1"
    /\ emails.exists
    /\ Len(emails.lines) >= 2
    /\ EntryWellFormed(emails.lines[1])
    /\ 2 \in MalformedEntries
    /\ UsagePrinted
    /\ calls = <<>>

(***************************************************************************)
(* The rounds of the message loop.                                         *)
(***************************************************************************)
\* the FLAGS fetches of mailbox iteration k of job j, in order: each opens
\* the round of one identifier
FlagFetches(j, k) ==
    SelectSeq(calls, LAMBDA c : c.job = j /\ c.mbx = k /\ c.conn = "src"
                                /\ c.op = "fetch" /\ c.arg = <<"(FLAGS)">>)

\* the destination selects of mailbox iteration k of job j: one per unit of
\* transfer
DstSelects(j, k) == {i \in CallsIn(j, k) : IsCall(i, "dst", "select")}

\* the message loop of iteration k of job j ran to the end of the list
MailboxComplete(j, k) ==
    \E i \in Idx(out) : /\ out[i].job = j /\ out[i].mbx = k
                        /\ out[i].msg = "Migration complete for mailbox"

\* every call of the message loop of iteration k of job j was answered OK
RoundsSucceed(j, k) == \A i \in CallsIn(j, k) : calls[i].it >= 1 => calls[i].res = "OK"

EndsQuoted(line) ==
    /\ Len(line) >= 2
    /\ line[Len(line)] = Q
    /\ \E p \in 1..(Len(line) - 1) : line[p] = Q

\* the content between the final pair of quotes, empty or not
FinalQuotedContent(line) ==
    LET open == CHOOSE p \in 1..(Len(line) - 1) :
                    /\ line[p] = Q
                    /\ \A q \in (p + 1)..(Len(line) - 1) : line[q] # Q
    IN  SubSeq(line, open + 1, Len(line) - 1)

\* the last white-space-delimited token: the longest run without white space
\* that ends at the last character that is not white space
LastToken(line) ==
    LET ends == {p \in 1..Len(line) : line[p] # SP}
        e    == CHOOSE p \in ends : \A q \in ends : q <= p
        b    == CHOOSE p \in 1..e :
                    /\ \A q \in p..e : line[q] # SP
                    /\ p > 1 => line[p - 1] = SP
    IN  SubSeq(line, b, e)

\* C13 as claimed: for a line that ends with a quoted segment the name is
\* the content between the final pair of quotes, an empty content included;
\* for any other line it is the last white-space-delimited token.
C13_QuotedContentOrLastToken ==
    pc = "resolved" =>
       mailbox_name = IF EndsQuoted(mailboxes[1])
                      THEN FinalQuotedContent(mailboxes[1])
                      ELSE LastToken(mailboxes[1])

\* the part of C13 that holds: a final quoted segment that is not empty
C13_NonEmptyQuotedContent ==
    (pc = "resolved" /\ EndsQuoted(mailboxes[1])
        /\ FinalQuotedContent(mailboxes[1]) # <<>>)
       => mailbox_name = FinalQuotedContent(mailboxes[1])

\* the part of C13 that holds: a line that does not end with a quoted segment
C13_UnquotedLastToken ==
    (pc = "resolved" /\ ~EndsQuoted(mailboxes[1]))
       => mailbox_name = LastToken(mailboxes[1])

(***************************************************************************)
(* The flag store.                                                         *)
(***************************************************************************)
\* the source message that the round of call i is about
RoundMessage(i) == SelectedBox(calls[i].job, calls[i].mbx)[calls[i].it]

\* C14 as claimed: the flag literal of every store is the parenthesized,
\* space-separated list of the flag names of the source message, each name
\* unchanged and nothing else in the literal.
C14_FlagLiteralIsSourceFlags ==
    \A i \in Idx(calls) :
       IsCall(i, "dst", "store") =>
          calls[i].arg = <<"(">> \o Join(RoundMessage(i).flags) \o <<")">>

\* the part of C14 that holds: a message whose flags are all system flags
\* (a leading backslash) gets the literal the claim describes
C14_SystemFlagsLiteral ==
    \A i \in Idx(calls) :
       (IsCall(i, "dst", "store")
          /\ \A f \in FlagSet(RoundMessage(i).flags) : Head(f) = BS)
       => calls[i].arg = <<"(">> \o Join(RoundMessage(i).flags) \o <<")">>

\* C15 as claimed: every flag store issued in the running job targets the
\* message its own round appended: the append three calls before it (append,
\* select, search, store) is of the same round and was answered OK, and the
\* destination message the store numbers has the body of the round's source
\* message.
C15_StoreTargetsOwnAppend ==
    \A i \in Idx(calls) :
       (calls[i].job = job /\ IsCall(i, "dst", "store")) =>
          /\ i > 3
          /\ IsCall(i - 3, "dst", "append")
          /\ calls[i - 3].mbx = calls[i].mbx
          /\ calls[i - 3].it = calls[i].it
          /\ calls[i - 3].res = "OK"
          /\ LET box == ParseMailboxArg(calls[i - 2].arg)[2]
             IN  dstBoxes[box][calls[i].num].body = RoundMessage(i).body

\* the part of C15 that holds: a store whose round's append was answered OK
\* numbers the message that append created
C15_StoreAfterGoodAppend ==
    \A i \in Idx(calls) :
       (calls[i].job = job /\ IsCall(i, "dst", "store") /\ calls[i - 3].res = "OK") =>
          /\ IsCall(i - 3, "dst", "append")
          /\ calls[i - 3].it = calls[i].it
          /\ LET box == ParseMailboxArg(calls[i - 2].arg)[2]
             IN  dstBoxes[box][calls[i].num].body = RoundMessage(i).body

(***************************************************************************)
(* The destination account.                                                *)
(***************************************************************************)
\* every mailbox, message and flag of the destination account before the
\* step is there after it: messages keep their position and body
DestinationKept ==
    /\ \A b \in DOMAIN dstBoxes :
          /\ b \in DOMAIN dstBoxes'
          /\ Len(dstBoxes'[b]) >= Len(dstBoxes[b])
          /\ \A n \in Idx(dstBoxes[b]) :
                /\ dstBoxes'[b][n].body = dstBoxes[b][n].body
                /\ dstBoxes[b][n].flags \subseteq dstBoxes'[b][n].flags
    /\ dstSubs \subseteq dstSubs'

\* C16: within a job no step removes a mailbox, a message, a subscription
\* or a flag from the destination account: mailboxes only grow and flags are
\* only added, and the only commands sent to the destination are create,
\* subscribe, append, select, search and store.
C16_DestinationOnlyGrows ==
    [][ /\ job' = job => DestinationKept
        /\ \A i \in Idx(calls') :
              (i > Len(calls) /\ calls'[i].conn = "dst") =>
                 calls'[i].op \in {"connect", "login", "create", "subscribe", "append",
                                   "select", "search", "store", "logout"} ]_vars

\* a store answered OK landed on a destination message that a store had
\* already flagged, and the message carries the flags of both
C16_Witness ==
    \E i1, i2 \in Idx(calls) :
       /\ i1 < i2
       /\ calls[i1].job = job /\ calls[i2].job = job
       /\ IsCall(i1, "dst", "store") /\ IsCall(i2, "dst", "store")
       /\ calls[i1].res = "OK" /\ calls[i2].res = "OK"
       /\ calls[i1].mbx = calls[i2].mbx /\ calls[i1].num = calls[i2].num
       /\ dstSel \in DOMAIN dstBoxes
       /\ ParseFlagList(calls[i1].arg) \cup ParseFlagList(calls[i2].arg)
             \subseteq dstBoxes[dstSel][calls[i2].num].flags
       /\ ParseFlagList(calls[i1].arg) # ParseFlagList(calls[i2].arg)

(***************************************************************************)
(* One copy per message, in the mailbox of its own name.                   *)
(***************************************************************************)
\* the source mailbox of job j, by its name on the server, that holds the
\* message of the given body
HoldingBox(j, body) ==
    CHOOSE b \in DOMAIN SrcBoxes(migrations[j].src) :
       \E n \in Idx(SrcBoxes(migrations[j].src)[b]) :
          SrcBoxes(migrations[j].src)[b][n].body = body

ListedNames(j) == {Canonical(j, k) : k \in Idx(Listing(j))}

\* the name the listing of job j gives the mailbox the server calls box: box
\* itself when it is listed, else the listed name that reaches it through
\* the INBOX. variant
ListedNameOf(j, box) ==
    IF box \in ListedNames(j) THEN box
    ELSE CHOOSE x \in ListedNames(j) : <<"INBOX.">> \o x = box

\* the appends of job j answered OK
GoodAppends(j) ==
    {i \in Idx(calls) : calls[i].job = j /\ IsCall(i, "dst", "append")
                        /\ calls[i].res = "OK"}

\* C17 as claimed: within a job each source message is appended at most
\* once, and only into the destination mailbox named as the listing names
\* the source mailbox that holds the message.
C17_OneCopyInOwnMailbox ==
    \A j \in 1..job : \A i \in GoodAppends(j) :
       /\ calls[i].arg = ListedNameOf(j, HoldingBox(j, calls[i].body))
       /\ \A i2 \in GoodAppends(j) : calls[i2].body = calls[i].body => i2 = i

\* the part of C17 that holds: within one mailbox iteration a message is
\* appended at most once
C17_OneCopyPerIteration ==
    \A j \in 1..job : \A i \in GoodAppends(j) :
       \A i2 \in GoodAppends(j) :
          (calls[i2].body = calls[i].body /\ calls[i2].mbx = calls[i].mbx) => i2 = i

(***************************************************************************)
(* The source account.                                                     *)
(***************************************************************************)
\* the last source select issued before call i
LastSelectBefore(i) ==
    Max({s \in 1..(i - 1) : IsCall(s, "src", "select")})

\* C18: a job never modifies the source account: the commands sent to the
\* source are login, list, select, search, fetch and logout only, every
\* select is read-only and no fetch marks a message; every search and fetch
\* is issued in a mailbox iteration whose own select, the last select sent
\* before it, was answered OK read-only, and while the program is in the
\* message loop the source holds that mailbox selected read-only.
C18_SourceNeverModified ==
    /\ srcSeen = {}
    /\ \A i \in Idx(calls) :
          calls[i].conn = "src" =>
             /\ calls[i].op \in {"connect", "login", "list", "select", "search",
                                 "fetch", "logout"}
             /\ calls[i].op = "select" => calls[i].readonly
             /\ calls[i].op \in {"search", "fetch"} =>
                   /\ \E s \in 1..(i - 1) : IsCall(s, "src", "select")
                   /\ LET s == LastSelectBefore(i)
                      IN  /\ calls[s].job = calls[i].job
                          /\ calls[s].mbx = calls[i].mbx
                          /\ calls[s].res = "OK"
                          /\ calls[s].readonly
    /\ pc \in {"fetch_flags", "fetch_header", "fetch_body"} =>
          /\ src_imap = "SELECTED"
          /\ srcReadonly
          /\ srcSel = ParseMailboxArg(NameFormats(mailbox_name)[fmt])[2]
          /\ srcSel \in DOMAIN SrcBoxes(cur.src)

\* a body was fetched, and appended, from a mailbox selected read-only whose
\* message was unread, and the message is still unread on the source
C18_Witness ==
    /\ pc = "dst_select"
    /\ srcReadonly
    /\ src_imap = "SELECTED"
    /\ \A i \in Idx(SrcMessage(num).flags) : SrcMessage(num).flags[i] # Seen
    /\ <<srcSel, num>> \notin srcSeen
    /\ IsCall(Len(calls), "dst", "append")
    /\ IsCall(Len(calls) - 1, "src", "fetch")
    /\ calls[Len(calls) - 1].res = "OK"

(***************************************************************************)
(* Termination.                                                            *)
(***************************************************************************)
\* the jobs started so far and the mailbox iterations of job j opened so
\* far, in the order they were
JobVisits == SelectSeq(out, LAMBDA l : l.msg = "Starting migration process...")

MailboxVisits(j) == SelectSeq(out, LAMBDA l : l.job = j /\ l.msg = "Mailbox:")

\* every entry of the job list, of a listing and of a search result is
\* visited at most once and in list order, and the calls are issued job
\* after job, mailbox after mailbox, message after message
VisitedOnceInOrder ==
    /\ Len(JobVisits) = job
    /\ job <= Len(migrations)
    /\ \A r \in Idx(JobVisits) : JobVisits[r].job = r
    /\ \A j \in 1..job :
          /\ Len(MailboxVisits(j)) <= Len(Listing(j))
          /\ \A r \in Idx(MailboxVisits(j)) : MailboxVisits(j)[r].mbx = r
          /\ \A k \in Idx(MailboxVisits(j)) :
                LET f == FlagFetches(j, k)
                IN  /\ \A r \in Idx(f) : f[r].num = r
                    /\ f # <<>> => Len(f) <= Len(SelectedBox(j, k))
    /\ \A i \in 1..(Len(calls) - 1) :
          /\ calls[i].job <= calls[i + 1].job
          /\ calls[i].job = calls[i + 1].job => calls[i].mbx <= calls[i + 1].mbx
          /\ (calls[i].job = calls[i + 1].job /\ calls[i].mbx = calls[i + 1].mbx
                /\ calls[i].it >= 1 /\ calls[i + 1].it >= 1)
             => calls[i].it <= calls[i + 1].it

\* main has returned after running every job of the list
Completed == pc = "exit" /\ job = Len(migrations)

\* C19: once emails.txt has been read as a well-formed job list, the run
\* terminates by main returning after the last job, whatever calls failed,
\* and the record of the whole run then shows every job, mailbox and message
\* of the lists visited at most once, in list order, one after the other.
C19_TerminatesVisitingOnce ==
    (pc = "main" /\ job = 0) ~> (Completed /\ VisitedOnceInOrder)

\* a run of two jobs has completed although the first job was ended by a
\* raised call
C19_Witness ==
    /\ Completed
    /\ job = 2
    /\ Len(JobVisits) = 2
    /\ \E i \in Idx(out) : out[i].job = 1 /\ out[i].msg \in {"IMAP error", "Unexpected error"}

=============================================================================
